---------------------------- MODULE Spec2Model ----------------------------
(***************************************************************************)
(* A model of sqlite_to_jsonl.py: the format validator (is_sqlite3), the   *)
(* WAL step (apply_wal), the table enumerator (get_tables), the table      *)
(* exporter (process_table, write_dicts_to_jsonl), the value normaliser    *)
(* (to_string) and the batch driver (process_file, process_folder, main).  *)
(*                                                                         *)
(* Three specifications:                                                   *)
(*   Spec         the batch driver over a small world of input files       *)
(*   SpecTable    process_table run repeatedly on one table                *)
(*   SpecToString to_string applied to bounded column values               *)
(***************************************************************************)
EXTENDS Naturals, Sequences, FiniteSets, TLC

VARIABLES
    \* ---- the world the driver runs in
    mode,       \* "file" (-f) or "folder" (-d)
    absIn,      \* TRUE when the input path given on the command line is absolute
    desc,       \* entry name -> what the file at that entry is (immutable part)
    bytes,      \* entry name -> the current byte content of the source file
    backup,     \* entry name -> content of <source>.backup, or "none"
    fs,         \* output file path -> its lines (files written by the exporter)
    \* ---- the driver's position and locals
    pc,         \* the statement the single thread is at
    idx,        \* process_folder: index into the directory listing
    cur,        \* process_file: the entry being processed ("none" outside)
    already_checked,
    out_dir,    \* process_file: its local output_dir after line 136
    conn,       \* entry name -> "unset", "open", "closed", "leaked" or "finalized"
    tables,     \* process_file: the list get_tables returned
    ti,         \* process_file: index of the next table in tables
    \* ---- observations (history)
    opens,      \* entry name -> number of sqlite3.connect calls that succeeded
    diag,       \* entry name -> number of [ERROR] diagnostics printed by is_sqlite3
    verdicts,   \* entry name -> set of values is_sqlite3 returned for it
    walPre,     \* content of the source file when apply_wal was entered
    walFailed,  \* TRUE when the checkpoint or the VACUUM raised in this apply_wal
    ckptCalls,  \* number of wal_checkpoint instructions issued in this apply_wal
    vacCalls,   \* number of VACUUM instructions issued in this apply_wal
    sawBackup,  \* TRUE once a backup file existed during this apply_wal
    exports,    \* sequence of <<entry, table>>: calls of write_dicts_to_jsonl
    queried,    \* sequence of <<entry, table>>: calls of process_table
    iofail,     \* set of <<entry, table>> whose directory creation or write failed
    excs,       \* entry name -> number of exceptions caught by process_file
    faults,     \* set of injected faults so far
    \* ---- SpecTable
    t_rows,     \* the rows of the table
    t_file,     \* content of the table's output file
    t_runs,     \* number of process_table runs so far
    t_ok,       \* TRUE when the last run wrote without an I/O error
    t_init,     \* what the output file held before the first run
    \* ---- SpecToString
    ts_in,      \* the value given to to_string
    ts_out      \* what to_string returned, or the "pending" value

drv_vars == <<mode, absIn, desc, bytes, backup, fs, pc, idx, cur, already_checked,
              out_dir, conn, tables, ti, opens, diag, verdicts, walPre, walFailed,
              ckptCalls, vacCalls, sawBackup, exports, queried, iofail, excs, faults>>
tbl_vars == <<t_rows, t_file, t_runs, t_ok, t_init>>
ts_vars  == <<ts_in, ts_out>>
vars     == <<drv_vars, tbl_vars, ts_vars>>

--------------------------------------------------------------------------
(* Bounds of the model *)

\* longest binary value given to to_string
MaxBytesLen == 3
\* most rows in a table of SpecTable
MaxRows == 2
\* most process_table runs on the table of SpecTable
MaxRuns == 3
\* most faults injected in one run of the driver
MaxFaults == 2

--------------------------------------------------------------------------
(* Column values.  A value is a record [tag, v]: tag is the Python type    *)
(* ("bytes", "str", "int", "float", "NoneType") and v the sequence of its  *)
(* bytes, characters or digits.                                            *)

Backslash == "\\"
SQuote    == "'"
DQuote    == "\""

\* the bytes a binary value is made of; "NUL" stands for a non-printable byte
ByteAlphabet == {"a", "b", SQuote, DQuote, Backslash, "NUL"}

Bytes(s) == [tag |-> "bytes", v |-> s]
Str(s)   == [tag |-> "str", v |-> s]
Int(s)   == [tag |-> "int", v |-> s]
Real(s)  == [tag |-> "float", v |-> s]
None     == [tag |-> "NoneType", v |-> <<>>]

SeqsUpTo(S, n) == UNION {[1..k -> S] : k \in 0..n}

\* bytes.__repr__ picks the quote: ' unless the value holds a ' and no "
ReprQuote(data) ==
    IF (\E i \in 1..Len(data) : data[i] = SQuote)
       /\ ~(\E i \in 1..Len(data) : data[i] = DQuote)
    THEN DQuote ELSE SQuote

\* bytes.__repr__ of one byte inside the quotes
ReprByte(c, quote) ==
    IF c = quote \/ c = Backslash THEN <<Backslash, c>>
    ELSE IF c = "NUL" THEN <<Backslash, "x", "0", "0">>
    ELSE <<c>>

RECURSIVE ReprBody(_, _)
ReprBody(data, quote) ==
    IF data = <<>> THEN <<>>
    ELSE ReprByte(Head(data), quote) \o ReprBody(Tail(data), quote)

\* str(data) for a bytes value: b, the quote, the escaped bytes, the quote
BytesRepr(data) ==
    <<"b", ReprQuote(data)>> \o ReprBody(data, ReprQuote(data)) \o <<ReprQuote(data)>>

\* str.lstrip(chars) with a one-character set
RECURSIVE LStrip(_, _)
LStrip(s, ch) ==
    IF s # <<>> /\ Head(s) = ch THEN LStrip(Tail(s), ch) ELSE s

RECURSIVE RStrip(_, _)
RStrip(s, ch) ==
    IF s # <<>> /\ s[Len(s)] = ch THEN RStrip(SubSeq(s, 1, Len(s) - 1), ch) ELSE s

\* str.strip(chars) with a one-character set
Strip(s, ch) == RStrip(LStrip(s, ch), ch)

\* to_string, lines 59-62
to_string(data) ==
    IF data.tag = "bytes"
    THEN Str(Strip(LStrip(BytesRepr(data.v), "b"), SQuote))
    ELSE data

--------------------------------------------------------------------------
(* Paths.  A path is the sequence of its components; an absolute path      *)
(* starts with the component "/".                                          *)

IsAbs(p) == p # <<>> /\ p[1] = "/"

\* os.path.join(a, b): an absolute b discards a
PathJoin(a, b) == IF IsAbs(b) THEN b ELSE a \o b

\* os.sep.join(path.split(os.sep)[:-1])
Parent(p) == SubSeq(p, 1, Len(p) - 1)

IsPrefix(a, p) == Len(a) <= Len(p) /\ SubSeq(p, 1, Len(a)) = a

--------------------------------------------------------------------------
(* The format validator *)

\* os.path.getsize(filename) < 100, line 20
MinSize == 100
\* file.read(16), line 25
HeaderLen == 16

\* b'SQLite format 3\x00', line 27
Magic == <<"S", "Q", "L", "i", "t", "e", " ", "f", "o", "r", "m", "a", "t", " ", "3", "NUL">>

Min(a, b) == IF a < b THEN a ELSE b

\* file.read(16): the first 16 bytes, fewer when the file is shorter
ReadHeader(d) == SubSeq(d.head, 1, Min(HeaderLen, Len(d.head)))

\* is_sqlite3 without the size test of line 20
is_sqlite3_NoSizeTest(d) ==
    IF d.kind # "file" THEN FALSE ELSE ReadHeader(d) = Magic

\* is_sqlite3, lines 17-31: the verdict
is_sqlite3(d) ==
    IF d.kind # "file" THEN FALSE
    ELSE IF d.size < MinSize THEN FALSE
    ELSE ReadHeader(d) = Magic

\* is_sqlite3 prints one [ERROR] line on each of its three negative paths
\* (lines 18, 21, 29) and nothing when the verdict is positive
Diagnostics(d) == IF is_sqlite3(d) THEN 0 ELSE 1

--------------------------------------------------------------------------
(* The catalog and the tables of a database *)

\* tables the engine creates for itself; they are rows of sqlite_master
\* with type 'table'
InternalNames == {"sqlite_sequence"}

\* names that are not a bare SQL identifier: interpolated unquoted into
\* PRAGMA table_info(...) and SELECT * FROM ..., they are a syntax error
QuotedNames == {"my table"}

Row(n, t) == [name |-> n, type |-> t]

CatPlain  == <<Row("users", "table"), Row("v_users", "view"),
               Row("logs", "table"), Row("idx_logs", "index")>>
CatSeq    == <<Row("users", "table"), Row("sqlite_sequence", "table")>>
CatQuoted == <<Row("my table", "table"), Row("logs", "table")>>
CatEmpty  == <<>>
Catalogs  == {CatPlain, CatSeq, CatQuoted, CatEmpty}

\* the user tables of a catalog: what the claim about N output files counts
UserTables(catalog) ==
    {catalog[i].name : i \in {j \in 1..Len(catalog) :
        catalog[j].type = "table" /\ catalog[j].name \notin InternalNames}}

RECURSIVE NamesOf(_)
NamesOf(rows) ==
    IF rows = <<>> THEN <<>> ELSE <<Head(rows).name>> \o NamesOf(Tail(rows))

IsTableRow(r) == r.type = "table"

\* get_tables, lines 97-99: SELECT name FROM sqlite_master WHERE type='table'
get_tables(catalog) == NamesOf(SelectSeq(catalog, IsTableRow))

\* PRAGMA table_info(<name>): column names in declaration order, lines 74-76
TableColumns(name) ==
    CASE name = "users"           -> <<"id", "name", "avatar">>
      [] name = "logs"            -> <<"ts", "msg">>
      [] name = "sqlite_sequence" -> <<"name", "seq">>
      [] OTHER                    -> <<"k">>

\* SELECT * FROM <name>: the rows of the table, lines 79-80
TableRows(name) ==
    CASE name = "users" ->
           << <<Int(<<"1">>), Str(<<"a">>), Bytes(<<"a", "NUL">>)>>,
              <<Int(<<"2">>), None, Bytes(<<SQuote>>)>> >>
      [] name = "logs" ->
           << <<Real(<<"1", ".", "5">>), Str(<<"b">>)>> >>
      [] name = "sqlite_sequence" ->
           << <<Str(<<"u">>), Int(<<"2">>)>> >>
      [] OTHER -> <<>>

\* the dict comprehension of line 87: zip(column_names, row) pairs the two
\* positionally and stops at the shorter
RowDict(column_names, row) ==
    [i \in 1..Min(Len(column_names), Len(row)) |->
        <<column_names[i], to_string(row[i])>>]

\* lines 84-88
RowsList(column_names, rows) ==
    [i \in 1..Len(rows) |-> RowDict(column_names, rows[i])]

\* json.dumps(entry) + '\n', lines 47-48: one object on one line
JsonLine(entry) == [obj |-> entry, nl |-> TRUE]

JsonLines(dict_list) == [i \in 1..Len(dict_list) |-> JsonLine(dict_list[i])]

\* open(output_file, "w+"), line 45: what is left of the old content
OpenAppend(old) == old
OpenForWrite(old) == <<>>

\* write_dicts_to_jsonl, lines 45-48, when nothing fails
WrittenFile(old, dict_list) == OpenForWrite(old) \o JsonLines(dict_list)

\* the content after open succeeded and the loop of lines 46-48 stopped early
FailedWrites(old, dict_list) ==
    {OpenForWrite(old) \o SubSeq(JsonLines(dict_list), 1, k) : k \in 0..Len(dict_list)}

\* process_table, line 82
OutputFile(output_dir, table_name) ==
    PathJoin(output_dir, <<table_name \o ".jsonl">>)

\* what process_table hands to write_dicts_to_jsonl, lines 74-88
TableExport(table_name) == RowsList(TableColumns(table_name), TableRows(table_name))

--------------------------------------------------------------------------
(* The world of the batch driver: one input folder with two entries *)

Entries == {"a.db", "b.db"}
\* os.listdir(input_foldername), line 168
Listing == <<"a.db", "b.db">>

\* -o out
OutputDir == <<"out">>

DirDesc   == [kind |-> "dir", size |-> 0, head |-> <<>>, wal |-> FALSE,
              catalog |-> CatEmpty]
EmptyFile == [kind |-> "file", size |-> 0, head |-> <<>>, wal |-> FALSE,
              catalog |-> CatEmpty]
\* the right signature, one byte short of the header size
ShortFile == [kind |-> "file", size |-> 99, head |-> Magic, wal |-> FALSE,
              catalog |-> CatEmpty]
\* the first 15 bytes are those of the signature, the 16th is not
WrongHead == [kind |-> "file", size |-> 4096,
              head |-> [Magic EXCEPT ![16] = "LF"] \o <<"x">>, wal |-> FALSE,
              catalog |-> CatEmpty]
Db(w, c)  == [kind |-> "file", size |-> 4096, head |-> Magic \o <<"x">>,
              wal |-> w, catalog |-> c]

InvalidDescs == {DirDesc, EmptyFile, ShortFile, WrongHead}
ValidDescs   == {Db(w, c) : w \in BOOLEAN, c \in Catalogs}
Descs        == InvalidDescs \cup ValidDescs

\* args.input_foldername
InputFolder == IF absIn THEN <<"/", "data">> ELSE <<"data">>

\* os.path.join(input_foldername, file), line 170; in file mode the same path
\* is given as args.input_filename
EntryPath(e) == PathJoin(InputFolder, <<e>>)

\* str(os.path.join(output_dir, input_filename)), line 136
FileOutputDir(output_dir, input_filename) == PathJoin(output_dir, input_filename)

\* a regular file: a source file or an exported file
IsRegularFile(p) ==
    \/ \E e \in Entries : desc[e].kind = "file" /\ EntryPath(e) = p
    \/ p \in DOMAIN fs

\* os.makedirs(parent, exist_ok=True) and open(path, "w+") succeed unless a
\* component above the file is a regular file
CanCreate(p) == ~(\E k \in 1..(Len(p) - 1) : IsRegularFile(SubSeq(p, 1, k)))

Put(f, p, c) == [q \in DOMAIN f \cup {p} |-> IF q = p THEN c ELSE f[q]]

CanInject == Cardinality(faults) < MaxFaults

\* the content of the source file: the rewrites applied to the original
Original == <<>>
\* PRAGMA wal_checkpoint(FULL), line 117: folds the log when there is one
Checkpointed(b, hasWal) == IF hasWal THEN Append(b, "ckpt") ELSE b
\* VACUUM, line 118: rebuilds the file; the bytes may or may not change
Vacuumed(b) == {b, Append(b, "vac")}
\* shutil.copy(backup_path, input_filename), line 121
SkipRestore(saved, current) == current
Restored(saved, current) == saved

\* no file at that path
NoFile == <<"none">>

DrvInit ==
    /\ mode \in {"file", "folder"}
    /\ absIn \in BOOLEAN
    /\ desc \in [Entries -> Descs]
    /\ mode = "file" => desc["b.db"] = DirDesc
    /\ bytes = [e \in Entries |-> Original]
    /\ backup = [e \in Entries |-> NoFile]
    /\ fs = <<>>
    /\ pc = "main"
    /\ idx = 0
    /\ cur = "none"
    /\ already_checked = FALSE
    /\ out_dir = <<>>
    /\ conn = [e \in Entries |-> "unset"]
    /\ tables = <<>>
    /\ ti = 0
    /\ opens = [e \in Entries |-> 0]
    /\ diag = [e \in Entries |-> 0]
    /\ verdicts = [e \in Entries |-> {}]
    /\ walPre = Original
    /\ walFailed = FALSE
    /\ ckptCalls = 0
    /\ vacCalls = 0
    /\ sawBackup = FALSE
    /\ exports = <<>>
    /\ queried = <<>>
    /\ iofail = {}
    /\ excs = [e \in Entries |-> 0]
    /\ faults = {}

DrvIdle ==
    /\ mode = "none" /\ absIn = FALSE /\ desc = [e \in Entries |-> DirDesc]
    /\ bytes = [e \in Entries |-> Original]
    /\ backup = [e \in Entries |-> NoFile]
    /\ fs = <<>> /\ pc = "idle" /\ idx = 0 /\ cur = "none"
    /\ already_checked = FALSE /\ out_dir = <<>>
    /\ conn = [e \in Entries |-> "unset"] /\ tables = <<>> /\ ti = 0
    /\ opens = [e \in Entries |-> 0] /\ diag = [e \in Entries |-> 0]
    /\ verdicts = [e \in Entries |-> {}]
    /\ walPre = Original /\ walFailed = FALSE /\ ckptCalls = 0 /\ vacCalls = 0
    /\ sawBackup = FALSE /\ exports = <<>> /\ queried = <<>> /\ iofail = {}
    /\ excs = [e \in Entries |-> 0] /\ faults = {}

TableIdleInit ==
    t_rows = <<>> /\ t_file = <<>> /\ t_runs = 0 /\ t_ok = TRUE /\ t_init = <<>>
ToStringIdleInit == ts_in = None /\ ts_out = None

Init == DrvInit /\ TableIdleInit /\ ToStringIdleInit

world == <<mode, absIn, desc>>
\* the variables of the other two specifications
idle == <<tbl_vars, ts_vars>>
walHist == <<walPre, walFailed, ckptCalls, vacCalls, sawBackup>>

--------------------------------------------------------------------------
(* main and process_folder *)

\* main, lines 200-201: -f
MainFile ==
    /\ pc = "main" /\ mode = "file"
    /\ pc' = "pf_start"
    /\ cur' = "a.db"
    /\ already_checked' = FALSE
    /\ UNCHANGED <<idle, world, bytes, backup, fs, idx, out_dir, conn, tables, ti, opens,
                   diag, verdicts, walHist, exports, queried, iofail, excs, faults>>

\* main, lines 202-203: -d
MainFolder ==
    /\ pc = "main" /\ mode = "folder"
    /\ pc' = "folder_loop"
    /\ idx' = 1
    /\ UNCHANGED <<idle, world, bytes, backup, fs, cur, already_checked, out_dir, conn,
                   tables, ti, opens, diag, verdicts, walHist, exports, queried,
                   iofail, excs, faults>>

\* process_folder, lines 169-172: an entry that is a file and passes
\* is_sqlite3 is handed to process_file
FolderCall ==
    /\ pc = "folder_loop" /\ idx <= Len(Listing)
    /\ LET e == Listing[idx] IN
        /\ desc[e].kind = "file" /\ is_sqlite3(desc[e])
        /\ verdicts' = [verdicts EXCEPT ![e] = @ \cup {TRUE}]
        /\ diag' = [diag EXCEPT ![e] = @ + Diagnostics(desc[e])]
        /\ cur' = e
    /\ already_checked' = TRUE
    /\ pc' = "pf_start"
    /\ UNCHANGED <<idle, world, bytes, backup, fs, idx, out_dir, conn, tables, ti, opens,
                   walHist, exports, queried, iofail, excs, faults>>

\* process_folder, lines 169-171: any other entry is passed over; is_sqlite3
\* runs (and prints) only when os.path.isfile holds
FolderSkip ==
    /\ pc = "folder_loop" /\ idx <= Len(Listing)
    /\ LET e == Listing[idx] IN
        /\ ~(desc[e].kind = "file" /\ is_sqlite3(desc[e]))
        /\ IF desc[e].kind = "file"
           THEN /\ verdicts' = [verdicts EXCEPT ![e] = @ \cup {is_sqlite3(desc[e])}]
                /\ diag' = [diag EXCEPT ![e] = @ + Diagnostics(desc[e])]
           ELSE UNCHANGED <<verdicts, diag>>
    /\ idx' = idx + 1
    /\ UNCHANGED <<idle, world, bytes, backup, fs, pc, cur, already_checked, out_dir, conn,
                   tables, ti, opens, walHist, exports, queried, iofail, excs, faults>>

\* process_folder: the listing is exhausted
FolderDone ==
    /\ pc = "folder_loop" /\ idx > Len(Listing)
    /\ pc' = "done"
    /\ UNCHANGED <<idle, world, bytes, backup, fs, idx, cur, already_checked, out_dir, conn,
                   tables, ti, opens, diag, verdicts, walHist, exports, queried,
                   iofail, excs, faults>>

--------------------------------------------------------------------------
(* process_file *)

\* process_file, lines 134-137: the validator accepts the file, or the caller
\* vouches for it
ProcessFileAccept ==
    /\ pc = "pf_start"
    /\ is_sqlite3(desc[cur]) \/ already_checked
    /\ verdicts' = [verdicts EXCEPT ![cur] = @ \cup {is_sqlite3(desc[cur])}]
    /\ diag' = [diag EXCEPT ![cur] = @ + Diagnostics(desc[cur])]
    /\ out_dir' = FileOutputDir(OutputDir, EntryPath(cur))
    /\ pc' = "connect"
    /\ UNCHANGED <<idle, world, bytes, backup, fs, idx, cur, already_checked, conn, tables,
                   ti, opens, walHist, exports, queried, iofail, excs, faults>>

\* process_file, lines 134 and 160-161
ProcessFileReject ==
    /\ pc = "pf_start"
    /\ ~(is_sqlite3(desc[cur]) \/ already_checked)
    /\ verdicts' = [verdicts EXCEPT ![cur] = @ \cup {FALSE}]
    /\ diag' = [diag EXCEPT ![cur] = @ + Diagnostics(desc[cur])]
    /\ pc' = "pf_return"
    /\ UNCHANGED <<idle, world, bytes, backup, fs, idx, cur, already_checked, out_dir, conn,
                   tables, ti, opens, walHist, exports, queried, iofail, excs, faults>>

\* lines 140-141: sqlite3.connect and conn.cursor succeed; apply_wal is entered
Connect ==
    /\ pc = "connect"
    /\ conn' = [conn EXCEPT ![cur] = "open"]
    /\ opens' = [opens EXCEPT ![cur] = @ + 1]
    /\ walPre' = bytes[cur]
    /\ walFailed' = FALSE
    /\ ckptCalls' = 0
    /\ vacCalls' = 0
    /\ sawBackup' = FALSE
    /\ pc' = "wal_backup"
    /\ UNCHANGED <<idle, world, bytes, backup, fs, idx, cur, already_checked, out_dir,
                   tables, ti, diag, verdicts, exports, queried, iofail, excs, faults>>

\* line 140: sqlite3.connect raises; conn and cursor keep the "" of lines 130-131
ConnectFail ==
    /\ pc = "connect"
    /\ CanInject
    /\ faults' = faults \cup {<<"connect", cur>>}
    /\ pc' = "except"
    /\ UNCHANGED <<idle, world, bytes, backup, fs, idx, cur, already_checked, out_dir, conn,
                   tables, ti, opens, diag, verdicts, walHist, exports, queried,
                   iofail, excs>>

--------------------------------------------------------------------------
(* apply_wal.  Lines 106-108 test for <source>-wal and only print: every   *)
(* statement below runs whether or not the log file exists.                *)

\* lines 112-114: shutil.copy(input_filename, backup_path)
WalBackup ==
    /\ pc = "wal_backup"
    /\ backup' = [backup EXCEPT ![cur] = bytes[cur]]
    /\ sawBackup' = TRUE
    /\ pc' = "wal_checkpoint"
    /\ UNCHANGED <<idle, world, bytes, fs, idx, cur, already_checked, out_dir, conn, tables,
                   ti, opens, diag, verdicts, walPre, walFailed, ckptCalls, vacCalls,
                   exports, queried, iofail, excs, faults>>

\* line 113 raises: it is outside the try of apply_wal, so process_file catches
WalBackupFail ==
    /\ pc = "wal_backup"
    /\ CanInject
    /\ faults' = faults \cup {<<"copy", cur>>}
    /\ pc' = "except"
    /\ UNCHANGED <<idle, world, bytes, backup, fs, idx, cur, already_checked, out_dir, conn,
                   tables, ti, opens, diag, verdicts, walHist, exports, queried,
                   iofail, excs>>

\* line 117
WalCheckpoint ==
    /\ pc = "wal_checkpoint"
    /\ ckptCalls' = ckptCalls + 1
    /\ bytes' = [bytes EXCEPT ![cur] = Checkpointed(@, desc[cur].wal)]
    /\ pc' = "wal_vacuum"
    /\ UNCHANGED <<idle, world, backup, fs, idx, cur, already_checked, out_dir, conn, tables,
                   ti, opens, diag, verdicts, walPre, walFailed, vacCalls, sawBackup,
                   exports, queried, iofail, excs, faults>>

\* line 117 raises, before or after the engine wrote pages of the log
WalCheckpointFail ==
    /\ pc = "wal_checkpoint"
    /\ CanInject
    /\ faults' = faults \cup {<<"checkpoint", cur>>}
    /\ ckptCalls' = ckptCalls + 1
    /\ \E b \in {bytes[cur], Checkpointed(bytes[cur], desc[cur].wal)} :
            bytes' = [bytes EXCEPT ![cur] = b]
    /\ walFailed' = TRUE
    /\ pc' = "wal_restore"
    /\ UNCHANGED <<idle, world, backup, fs, idx, cur, already_checked, out_dir, conn, tables,
                   ti, opens, diag, verdicts, walPre, vacCalls, sawBackup, exports,
                   queried, iofail, excs>>

\* line 118
WalVacuum ==
    /\ pc = "wal_vacuum"
    /\ vacCalls' = vacCalls + 1
    /\ \E b \in Vacuumed(bytes[cur]) : bytes' = [bytes EXCEPT ![cur] = b]
    /\ pc' = "wal_cleanup"
    /\ UNCHANGED <<idle, world, backup, fs, idx, cur, already_checked, out_dir, conn, tables,
                   ti, opens, diag, verdicts, walPre, walFailed, ckptCalls, sawBackup,
                   exports, queried, iofail, excs, faults>>

\* line 118 raises: the file stays as the checkpoint left it
WalVacuumFail ==
    /\ pc = "wal_vacuum"
    /\ CanInject
    /\ faults' = faults \cup {<<"vacuum", cur>>}
    /\ vacCalls' = vacCalls + 1
    /\ walFailed' = TRUE
    /\ pc' = "wal_restore"
    /\ UNCHANGED <<idle, world, bytes, backup, fs, idx, cur, already_checked, out_dir, conn,
                   tables, ti, opens, diag, verdicts, walPre, ckptCalls, sawBackup,
                   exports, queried, iofail, excs>>

\* line 119: os.remove(backup_path); apply_wal returns
WalCleanup ==
    /\ pc = "wal_cleanup"
    /\ backup' = [backup EXCEPT ![cur] = NoFile]
    /\ pc' = "get_tables"
    /\ UNCHANGED <<idle, world, bytes, fs, idx, cur, already_checked, out_dir, conn, tables,
                   ti, opens, diag, verdicts, walHist, exports, queried, iofail, excs,
                   faults>>

\* lines 120-123: the except clause of apply_wal; apply_wal returns
WalRestore ==
    /\ pc = "wal_restore"
    /\ bytes' = [bytes EXCEPT ![cur] = Restored(backup[cur], @)]
    /\ backup' = [backup EXCEPT ![cur] = NoFile]
    /\ pc' = "get_tables"
    /\ UNCHANGED <<idle, world, fs, idx, cur, already_checked, out_dir, conn, tables, ti,
                   opens, diag, verdicts, walHist, exports, queried, iofail, excs,
                   faults>>

--------------------------------------------------------------------------
(* get_tables and the loop over the tables, lines 147-151 *)

\* line 147
GetTables ==
    /\ pc = "get_tables"
    /\ tables' = get_tables(desc[cur].catalog)
    /\ ti' = 1
    /\ pc' = "tables"
    /\ UNCHANGED <<idle, world, bytes, backup, fs, idx, cur, already_checked, out_dir, conn,
                   opens, diag, verdicts, walHist, exports, queried, iofail, excs,
                   faults>>

\* line 97 raises
GetTablesFail ==
    /\ pc = "get_tables"
    /\ CanInject
    /\ faults' = faults \cup {<<"get_tables", cur>>}
    /\ pc' = "except"
    /\ UNCHANGED <<idle, world, bytes, backup, fs, idx, cur, already_checked, out_dir, conn,
                   tables, ti, opens, diag, verdicts, walHist, exports, queried,
                   iofail, excs>>

\* the except clause of write_dicts_to_jsonl, lines 50-51, and that of
\* create_folder_if_not_exists, lines 184-185: the error is printed, not raised
WriteErrorEscapes == FALSE
WriteErrorCaught == TRUE

AfterWriteError == IF WriteErrorCaught THEN "tables" ELSE "except"

OldContent(p) == IF p \in DOMAIN fs THEN fs[p] ELSE <<>>

\* process_table, lines 74-90, when the queries and the write succeed
TableExportOk ==
    /\ pc = "tables" /\ ti <= Len(tables)
    /\ LET name == tables[ti]
           path == OutputFile(out_dir, name)
       IN /\ name \notin QuotedNames
          /\ CanCreate(path)
          /\ fs' = Put(fs, path, WrittenFile(OldContent(path), TableExport(name)))
          /\ queried' = Append(queried, <<cur, name>>)
          /\ exports' = Append(exports, <<cur, name>>)
    /\ ti' = ti + 1
    /\ UNCHANGED <<idle, world, bytes, backup, idx, pc, cur, already_checked, out_dir, conn,
                   tables, opens, diag, verdicts, walHist, iofail, excs, faults>>

\* process_table when a component above the output file is a regular file:
\* os.makedirs and open raise inside write_dicts_to_jsonl
TableExportBlocked ==
    /\ pc = "tables" /\ ti <= Len(tables)
    /\ LET name == tables[ti]
           path == OutputFile(out_dir, name)
       IN /\ name \notin QuotedNames
          /\ ~CanCreate(path)
          /\ queried' = Append(queried, <<cur, name>>)
          /\ exports' = Append(exports, <<cur, name>>)
          /\ iofail' = iofail \cup {<<cur, name>>}
    /\ pc' = AfterWriteError
    /\ ti' = IF WriteErrorCaught THEN ti + 1 ELSE ti
    /\ UNCHANGED <<idle, world, bytes, backup, fs, idx, cur, already_checked, out_dir, conn,
                   tables, opens, diag, verdicts, walHist, excs, faults>>

\* process_table when open or f.write raises (disk full, permissions)
TableExportIOFault ==
    /\ pc = "tables" /\ ti <= Len(tables)
    /\ CanInject
    /\ LET name == tables[ti]
           path == OutputFile(out_dir, name)
       IN /\ name \notin QuotedNames
          /\ CanCreate(path)
          /\ \/ UNCHANGED fs
             \/ \E c \in FailedWrites(OldContent(path), TableExport(name)) :
                    fs' = Put(fs, path, c)
          /\ queried' = Append(queried, <<cur, name>>)
          /\ exports' = Append(exports, <<cur, name>>)
          /\ iofail' = iofail \cup {<<cur, name>>}
          /\ faults' = faults \cup {<<"write", cur, name>>}
    /\ pc' = AfterWriteError
    /\ ti' = IF WriteErrorCaught THEN ti + 1 ELSE ti
    /\ UNCHANGED <<idle, world, bytes, backup, idx, cur, already_checked, out_dir, conn,
                   tables, opens, diag, verdicts, walHist, excs>>

\* process_table, lines 74 and 79: the table name is interpolated unquoted, so
\* a name that is not a bare identifier makes the statement a syntax error
TableSyntaxError ==
    /\ pc = "tables" /\ ti <= Len(tables)
    /\ tables[ti] \in QuotedNames
    /\ queried' = Append(queried, <<cur, tables[ti]>>)
    /\ pc' = "except"
    /\ UNCHANGED <<idle, world, bytes, backup, fs, idx, cur, already_checked, out_dir, conn,
                   tables, ti, opens, diag, verdicts, walHist, exports, iofail, excs,
                   faults>>

\* process_table, lines 74-80: a query raises
TableQueryFail ==
    /\ pc = "tables" /\ ti <= Len(tables)
    /\ tables[ti] \notin QuotedNames
    /\ CanInject
    /\ faults' = faults \cup {<<"query", cur, tables[ti]>>}
    /\ queried' = Append(queried, <<cur, tables[ti]>>)
    /\ pc' = "except"
    /\ UNCHANGED <<idle, world, bytes, backup, fs, idx, cur, already_checked, out_dir, conn,
                   tables, ti, opens, diag, verdicts, walHist, exports, iofail, excs>>

\* lines 150-153: the loop ends; nothing follows the comment of line 153, so
\* the connection stays open
TablesDone ==
    /\ pc = "tables" /\ ti > Len(tables)
    /\ pc' = "pf_return"
    /\ UNCHANGED <<idle, world, bytes, backup, fs, idx, cur, already_checked, out_dir, conn,
                   tables, ti, opens, diag, verdicts, walHist, exports, queried,
                   iofail, excs, faults>>

--------------------------------------------------------------------------
(* the except clause of process_file, lines 155-158, and its return *)

\* cursor.close(); conn.close() on an open connection
ExceptClose ==
    /\ pc = "except"
    /\ conn[cur] = "open"
    /\ excs' = [excs EXCEPT ![cur] = @ + 1]
    /\ conn' = [conn EXCEPT ![cur] = "closed"]
    /\ pc' = "pf_return"
    /\ UNCHANGED <<idle, world, bytes, backup, fs, idx, cur, already_checked, out_dir,
                   tables, ti, opens, diag, verdicts, walHist, exports, queried,
                   iofail, faults>>

\* cursor.close() when sqlite3.connect raised: cursor is still the str of
\* line 131, which has no close; the AttributeError leaves process_file and,
\* uncaught by process_folder and main, ends the program
ExceptCrash ==
    /\ pc = "except"
    /\ conn[cur] = "unset"
    /\ excs' = [excs EXCEPT ![cur] = @ + 1]
    /\ pc' = "crashed"
    /\ UNCHANGED <<idle, world, bytes, backup, fs, idx, cur, already_checked, out_dir, conn,
                   tables, ti, opens, diag, verdicts, walHist, exports, queried,
                   iofail, faults>>

\* process_file returns.  A connection it left open is no longer referenced:
\* whether the runtime finalizes it now (reference counting) or leaves it
\* open (any later collection) is up to the runtime.
ProcessFileReturn ==
    /\ pc = "pf_return"
    /\ IF conn[cur] = "open"
       THEN \E c \in {"leaked", "finalized"} : conn' = [conn EXCEPT ![cur] = c]
       ELSE UNCHANGED conn
    /\ IF mode = "folder"
       THEN pc' = "folder_loop" /\ idx' = idx + 1
       ELSE pc' = "done" /\ UNCHANGED idx
    /\ cur' = "none"
    /\ UNCHANGED <<idle, world, bytes, backup, fs, already_checked, out_dir, tables, ti,
                   opens, diag, verdicts, walHist, exports, queried, iofail, excs,
                   faults>>

Next ==
    \/ MainFile \/ MainFolder
    \/ FolderCall \/ FolderSkip \/ FolderDone
    \/ ProcessFileAccept \/ ProcessFileReject
    \/ Connect \/ ConnectFail
    \/ WalBackup \/ WalBackupFail
    \/ WalCheckpoint \/ WalCheckpointFail
    \/ WalVacuum \/ WalVacuumFail
    \/ WalCleanup \/ WalRestore
    \/ GetTables \/ GetTablesFail
    \/ TableExportOk \/ TableExportBlocked \/ TableExportIOFault
    \/ TableSyntaxError \/ TableQueryFail \/ TablesDone
    \/ ExceptClose \/ ExceptCrash
    \/ ProcessFileReturn

Spec == Init /\ [][Next]_vars

--------------------------------------------------------------------------
(* SpecTable: process_table run again and again on one table *)

TblColumns == <<"id", "val">>
TblValues  == {Int(<<"1">>), None, Str(<<"a">>), Bytes(<<"a", "NUL">>)}
TblRowSet  == [1..Len(TblColumns) -> TblValues]

\* what the output file may hold before the first run: nothing, lines of an
\* earlier export of another table content, or the very lines of this table
OldLine == JsonLine(<< <<"id", Str(<<"o", "l", "d">>)>> >>)
TblOldFiles(rows) ==
    {<<>>, <<OldLine>>, <<OldLine, OldLine, OldLine>>, JsonLines(RowsList(TblColumns, rows))}

TblInit ==
    /\ t_rows \in SeqsUpTo(TblRowSet, MaxRows)
    /\ t_init \in TblOldFiles(t_rows)
    /\ t_file = t_init
    /\ t_runs = 0
    /\ t_ok = TRUE

\* process_table, lines 74-90, the write succeeding
TableRun ==
    /\ t_runs < MaxRuns
    /\ t_file' = WrittenFile(t_file, RowsList(TblColumns, t_rows))
    /\ t_runs' = t_runs + 1
    /\ t_ok' = TRUE
    /\ UNCHANGED <<t_rows, t_init, drv_vars, ts_vars>>

\* process_table, the write failing: open raised (file untouched) or the loop
\* stopped early; write_dicts_to_jsonl prints and returns
TableRunIOFault ==
    /\ t_runs < MaxRuns
    /\ \/ t_file' = t_file
       \/ t_file' \in FailedWrites(t_file, RowsList(TblColumns, t_rows))
    /\ t_runs' = t_runs + 1
    /\ t_ok' = FALSE
    /\ UNCHANGED <<t_rows, t_init, drv_vars, ts_vars>>

TableNext == TableRun \/ TableRunIOFault

TableInit == DrvIdle /\ TblInit /\ ToStringIdleInit

SpecTable == TableInit /\ [][TableNext]_vars

--------------------------------------------------------------------------
(* SpecToString: to_string applied to one column value *)

Pending == [tag |-> "pending", v |-> <<>>]

\* text that looks like the repr of a bytes value is still text
ToStringInputs ==
    {Bytes(s) : s \in SeqsUpTo(ByteAlphabet, MaxBytesLen)}
    \cup {None, Int(<<"7">>), Real(<<"1", ".", "5">>), Str(<<>>), Str(<<"a">>),
          Str(<<"b", SQuote, "a", SQuote>>), Str(<<SQuote, "b", SQuote>>)}

ToStringInit ==
    /\ ts_in \in ToStringInputs
    /\ ts_out = Pending

\* the call to_string(value) of line 87
ApplyToString ==
    /\ ts_out = Pending
    /\ ts_out' = to_string(ts_in)
    /\ UNCHANGED <<ts_in, drv_vars, tbl_vars>>

ToStringNext == ApplyToString

ToStringSpecInit == DrvIdle /\ TableIdleInit /\ ToStringInit

SpecToString == ToStringSpecInit /\ [][ToStringNext]_vars

--------------------------------------------------------------------------
(* Properties of the batch driver (Spec) *)

RECURSIVE TablesOf(_, _)
\* the table names of the pairs <<e, name>> of a log, in order
TablesOf(log, e) ==
    IF log = <<>> THEN <<>>
    ELSE IF Head(log)[1] = e THEN <<Head(log)[2]>> \o TablesOf(Tail(log), e)
    ELSE TablesOf(Tail(log), e)

Range(q) == {q[i] : i \in 1..Len(q)}

\* a file smaller than 100 bytes, or whose first 16 bytes are not the signature
SmallOrWrongHeader(d) ==
    /\ d.kind = "file"
    /\ \/ d.size < 100
       \/ Len(d.head) < 16
       \/ \E i \in 1..16 : d.head[i] # Magic[i]

\* a file of at least 100 bytes that starts with the signature
ValidDatabase(d) == d.kind = "file" /\ ~SmallOrWrongHeader(d)

\* the driver is past entry e
Handled(e) ==
    \/ mode = "folder" /\ \E i \in 1..Len(Listing) : Listing[i] = e /\ idx > i
    \/ mode = "file" /\ e = "a.db" /\ pc = "done"

\* process_file was given entry e: it connected, or sqlite3.connect raised
HandedOver(e) == opens[e] = 1 \/ <<"connect", e>> \in faults

FilesUnder(dir) == {p \in DOMAIN fs : IsPrefix(dir, p)}

\* C1: a file that is too small or has the wrong header gets a negative
\* verdict from is_sqlite3, is never connected to and gets no export, in
\* file mode and in folder mode; once the driver is past it, its diagnostic
\* has been printed; it never ends the run: the run ends abnormally only when
\* sqlite3.connect raised, and when folder mode finishes every valid database
\* of the listing was handed to process_file, which in a run without faults,
\* with a relative input path and bare table names, wrote every table's file.
C1_InvalidInputsSkipped ==
    /\ \A e \in Entries : SmallOrWrongHeader(desc[e]) =>
        /\ TRUE \notin verdicts[e]
        /\ opens[e] = 0 /\ conn[e] = "unset" /\ excs[e] = 0
        /\ TablesOf(queried, e) = <<>> /\ TablesOf(exports, e) = <<>>
        /\ FilesUnder(FileOutputDir(OutputDir, EntryPath(e))) = {}
        /\ pc \in {"connect", "except", "crashed"} => cur # e
        /\ Handled(e) => diag[e] >= 1 /\ verdicts[e] = {FALSE}
    /\ pc = "crashed" => \E e \in Entries : <<"connect", e>> \in faults
    /\ (mode = "folder" /\ pc = "done") =>
         \A e \in Entries : ValidDatabase(desc[e]) =>
            /\ HandedOver(e)
            /\ (faults = {} /\ ~absIn /\ Range(get_tables(desc[e].catalog)) \cap QuotedNames = {})
                => \A n \in UserTables(desc[e].catalog) :
                     OutputFile(FileOutputDir(OutputDir, EntryPath(e)), n) \in DOMAIN fs

\* C1 witness: folder mode finished; the first entry was a 99-byte file with
\* the right signature, the second a valid database whose table was written
C1_Witness ==
    /\ mode = "folder" /\ pc = "done"
    /\ desc["a.db"] = ShortFile /\ diag["a.db"] = 1
    /\ desc["b.db"] = Db(FALSE, CatPlain)
    /\ <<"out", "data", "b.db", "users.jsonl">> \in DOMAIN fs

\* C2 (as claimed): get_tables returns the user tables only, and a process_file
\* without faults on a valid database leaves exactly one output file per user
\* table, each user table exported once.
C2_OneFilePerUserTable ==
    /\ pc = "tables" => Range(tables) = UserTables(desc[cur].catalog)
    /\ (pc = "pf_return" /\ ValidDatabase(desc[cur]) /\ faults = {} /\ ~absIn) =>
        /\ Range(TablesOf(exports, cur)) = UserTables(desc[cur].catalog)
        /\ Len(TablesOf(exports, cur)) = Cardinality(UserTables(desc[cur].catalog))
        /\ FilesUnder(out_dir) =
             {OutputFile(out_dir, n) : n \in UserTables(desc[cur].catalog)}

\* C3 (as claimed): every table whose write was attempted and met no I/O
\* fault has its file at output_dir, then all components of the input path,
\* then <table>.jsonl, and every output file lies under output_dir.
C3_OutputMirrorsInputPath ==
    /\ \A i \in 1..Len(exports) :
         <<"write", exports[i][1], exports[i][2]>> \notin faults =>
            (OutputDir \o EntryPath(exports[i][1]) \o <<exports[i][2] \o ".jsonl">>)
                \in DOMAIN fs
    /\ \A p \in DOMAIN fs : IsPrefix(OutputDir, p)

\* C4: when apply_wal has returned no backup file is left, and if the
\* checkpoint or the VACUUM raised, the source file has the bytes it had when
\* apply_wal was entered and neither instruction was issued a second time.
C4_WalFailureRestores ==
    pc = "get_tables" =>
        /\ backup[cur] = NoFile
        /\ sawBackup
        /\ walFailed =>
            /\ bytes[cur] = walPre
            /\ ckptCalls = 1
            /\ vacCalls <= 1

\* C4 witness: the checkpoint folded a log into the file, the VACUUM raised,
\* and apply_wal has returned
C4_Witness ==
    /\ pc = "get_tables" /\ walFailed
    /\ desc[cur].wal
    /\ <<"vacuum", cur>> \in faults
    /\ ckptCalls = 1 /\ vacCalls = 1

\* C5 (as claimed): when no <source>-wal exists, apply_wal issues neither the
\* checkpoint nor the VACUUM and returns with the source file unchanged.
C5_NoWalNoInstruction ==
    (pc = "get_tables" /\ ~desc[cur].wal) =>
        /\ ckptCalls = 0
        /\ vacCalls = 0
        /\ bytes[cur] = walPre

\* C6 (as claimed): at most one connection is opened per source file, and
\* once process_file has returned for a file its connection is not open.
C6_ConnectionClosedOnReturn ==
    \A e \in Entries :
        /\ opens[e] <= 1
        /\ (cur # e /\ pc # "crashed") => conn[e] # "leaked"

\* C9 (as claimed): no exception raised in the body of process_file leaves
\* process_file.
C9_NoExceptionEscapes == pc # "crashed"

\* an exception of entry e that process_file's except clause caught has a
\* statement of the try body that raised it
HasRaiser(e) ==
    \/ \E f \in faults : f[1] \in {"connect", "copy", "get_tables", "query"} /\ f[2] = e
    \/ Range(TablesOf(queried, e)) \cap QuotedNames # {}

\* C10: a failed directory creation or write of one table raises nothing in
\* process_file; when no query raised for a file, every table get_tables
\* returned was queried and handed to the writer, in order, whatever writes
\* failed; and folder mode still hands every valid database to process_file.
C10_WriteFailureContained ==
    /\ \A e \in Entries :
        /\ excs[e] > 0 => HasRaiser(e)
        /\ (cur # e /\ opens[e] = 1 /\ excs[e] = 0) =>
            /\ TablesOf(queried, e) = get_tables(desc[e].catalog)
            /\ TablesOf(exports, e) = get_tables(desc[e].catalog)
    /\ (mode = "folder" /\ pc = "done") =>
         \A e \in Entries : ValidDatabase(desc[e]) => HandedOver(e)

\* C10 witness: the write of the first table of the first file failed; the
\* next table of that file and the table of the next file were written
C10_Witness ==
    /\ mode = "folder" /\ pc = "done"
    /\ <<"write", "a.db", "users">> \in faults
    /\ <<"a.db", "users">> \in iofail
    /\ <<"out", "data", "a.db", "logs.jsonl">> \in DOMAIN fs
    /\ <<"out", "data", "b.db", "users.jsonl">> \in DOMAIN fs

--------------------------------------------------------------------------
(* Property of the table exporter (SpecTable) *)

\* C7: after any number of process_table runs on the same table, the last of
\* which wrote without error, the output file holds exactly the lines of one
\* export of the table, whatever it held before the first run.
C7_ExportOverwrites ==
    (t_runs >= 1 /\ t_ok) => t_file = JsonLines(RowsList(TblColumns, t_rows))

\* C7 witness: two runs on a table of two rows over a file that held an old line
C7_Witness ==
    /\ t_runs = 2 /\ t_ok
    /\ Len(t_rows) = 2
    /\ t_init = <<OldLine>>
    /\ Len(t_file) = 2

--------------------------------------------------------------------------
(* Property of the value normaliser (SpecToString) *)

\* C8 (as claimed): to_string returns a non-binary value unchanged, and for a
\* binary value the string made of its textual representation without the b
\* prefix and without the two enclosing quotes, nothing else removed.
C8_ToStringStripsOnlyLiteralMarks ==
    ts_out # Pending =>
        IF ts_in.tag = "bytes"
        THEN ts_out = Str(ReprBody(ts_in.v, ReprQuote(ts_in.v)))
        ELSE ts_out = ts_in

==========================================================================
